---- MODULE Spec2Model ----
(***************************************************************************)
(* Scraping orchestration of pingitoreluiz/WebScrapper.                    *)
(*                                                                         *)
(* Two entry points are modelled, each as a sequential process whose       *)
(* position is a program counter:                                          *)
(*   - BaseScraper.run              (src/src/scrapers/base.py)             *)
(*   - ScrapeStoreUseCase.execute   (src/src/scrapers/application/         *)
(*                                   use_cases/scrape_store.py)            *)
(* A behaviour runs one of them from its call to its return or raise.      *)
(*                                                                         *)
(* Further components have specifications of their own:                    *)
(*   - ItemSpec: one extraction result through the validation of           *)
(*     BaseScraper._process_product or of ScrapeStoreUseCase.execute,      *)
(*     with Price.from_string computed on the characters of the string;    *)
(*   - SequentialSpec, ConcurrentSpec: ProductRepository.create            *)
(*     (src/src/backend/core/repository.py) over database sessions, one    *)
(*     session at a time or two sessions interleaved;                      *)
(*   - EntitySpec: a ScraperRun entity under any sequence of its public    *)
(*     methods (src/src/scrapers/domain/entities/scraper_run.py);          *)
(*   - CallSpec: one call of BaseScraper._extract_text, of                 *)
(*     DataExtractor.extract_text, of PichauScraper.extract_price or of    *)
(*     Price.from_string on one argument;                                  *)
(*   - ApiSpec: the background tasks started by POST /run                  *)
(*     (src/src/backend/api/routes/scrapers.py);                           *)
(*   - SchedulerSpec: ScraperScheduler._run_scraper on the threads of the  *)
(*     background scheduler (src/src/scrapers/scheduler.py).               *)
(* Collaborators (browser, page, extractor, repositories) are inputs: each *)
(* call draws its outcome from the outcomes the call can have.             *)
(*                                                                         *)
(* Exceptions: "Exception" stands for any subclass of Exception that is    *)
(* not named otherwise; asyncio.CancelledError derives from BaseException  *)
(* and is not caught by `except Exception`.                                *)
(***************************************************************************)
EXTENDS Integers, Sequences, FiniteSets, TLC

\* ---------------------------------------------------------------- bounds
MaxPages == 5
MaxCards == 6
NumSelectors == 2
MaxResults == 3
MaxUcPages == 2
MaxCreates == 3
MaxOps == 4
MaxProducts == 2
MaxFallbacks == 2
MaxMatches == 2
MaxAmounts == 3
MaxLen == 5
MaxTriggers == 2
MaxJobs == 4
MaxConcurrent == 2

\* ------------------------------------------------------ program constants
\* base.py:160  `if self.metrics.errors >= 3`
TooManyErrors == 3
\* base.py:393  `if len(elements) > 5`
MinCards == 5

VARIABLES
    \* ---- BaseScraper.run
    pc,             \* position of run()
    max_pages,      \* self.config.max_pages
    page_num,       \* local page_num of run()
    metrics,        \* self.metrics (ScraperMetrics)
    browser,        \* self.playwright / self.browser: what _setup_browser acquired
    products,       \* elements of the current page not yet processed
    exc,            \* exception propagating out of run(), "none" if none
    requested,      \* history: page numbers handed to page.goto, in order
    attempts,       \* history: outcome of every finished page attempt, in order
    calls,          \* history: _setup_browser / page.goto / _cleanup_browser
                    \* invocations, in order ("setup_raised" follows a
                    \* _setup_browser call that raised)
    caught,         \* history: TRUE once _process_product caught an exception
    maintenance,    \* history: TRUE when the latest _load_page call found the
                    \* maintenance title
    few_elements,   \* history: TRUE when in the latest _extract_products call
                    \* no selector located more than 5 elements
    recorded,       \* what ScraperScheduler._save_metrics stored for this run
    \* ---- ScrapeStoreUseCase.execute
    uc_pc,          \* position of execute()
    config,         \* the ScraperConfigDTO argument
    run,            \* the ScraperRun entity, NoRun before it is created
    uc_page_num,    \* local page_num of execute()
    results,        \* extraction_results of the current page not yet processed
    uc_exc,         \* exception propagating out of execute(), "none" if none
    page_results,   \* history: extraction_results of the current page, whole
    page_base,      \* history: the run's counters when the current page began
    uc_requested,   \* history: page numbers handed to browser.navigate
    uc_calls,       \* history: calls made on the collaborators, in order
    uc_failed,      \* history: the call whose exception the except block caught
    \* ---- one extraction result on its way to the repository
    item,           \* the ExtractionResult / ExtractionResultDTO
    handled,        \* what became of it
    \* ---- ProductRepository over the products table
    table,          \* the committed rows of the products table
    sessions,       \* per database session: position inside create(), the
                    \* product being created, the row found, uncommitted rows
    next_id,        \* the next autoincrement id
    clock,          \* datetime.now()
    created,        \* history: the completed create() calls, in order
    \* ---- a ScraperRun entity used on its own (held in `run`)
    ops,            \* history: the operations applied to the entity, in order
    \* ---- a function of the extraction layer applied to one argument
    fcall,          \* the function, its argument, and its result once done
    \* ---- the scrape endpoint of the API
    tasks,          \* per POST /run request: its background task
    \* ---- ScraperScheduler
    running_jobs,   \* self.running_jobs
    max_concurrent, \* self.max_concurrent
    jobs            \* per call of _run_scraper: its position and history

runVars == <<pc, max_pages, page_num, metrics, browser, products, exc,
             requested, attempts, calls, caught, maintenance, few_elements,
             recorded>>

ucVars == <<uc_pc, config, run, uc_page_num, results, uc_exc, page_results,
            page_base, uc_requested, uc_calls, uc_failed>>

\* state of the components specified on their own below
itemVars == <<item, handled>>
repoVars == <<table, sessions, next_id, clock, created>>
entityVars == <<ops>>
callVars == <<fcall>>
apiVars == <<tasks>>
schedulerVars == <<running_jobs, max_concurrent, jobs>>
moreVars == <<ops, fcall, tasks, running_jobs, max_concurrent, jobs>>
extVars == <<item, handled, table, sessions, next_id, clock, created, ops,
            fcall, tasks, running_jobs, max_concurrent, jobs>>

vars == <<pc, max_pages, page_num, metrics, browser, products, exc,
          requested, attempts, calls, caught, maintenance, few_elements,
          recorded,
          uc_pc, config, run, uc_page_num, results, uc_exc, page_results,
          page_base, uc_requested, uc_calls, uc_failed,
          item, handled, table, sessions, next_id, clock, created, ops,
          fcall, tasks, running_jobs, max_concurrent, jobs>>

\* ------------------------------------------------------------- helpers
Last(s) == s[Len(s)]

\* ScraperMetrics(store=config.store): all counters default to 0
ScraperMetrics ==
    [pages_scraped |-> 0, products_found |-> 0, products_saved |-> 0,
     products_skipped |-> 0, errors |-> 0, captchas_detected |-> 0,
     started_at |-> FALSE, finished_at |-> FALSE]

\* ====================================================================
\* BaseScraper
\* ====================================================================

\* faulty variant of should_continue: the error limit is reached one error early
should_continue_two(p, m) ==
    IF p > max_pages THEN FALSE
    ELSE IF m.errors >= TooManyErrors - 1 THEN FALSE
    ELSE TRUE

\* faulty variant of should_continue: `>` in place of `>=`
should_continue_gt(p, m) ==
    IF p > max_pages THEN FALSE
    ELSE IF m.errors > TooManyErrors THEN FALSE
    ELSE TRUE

\* BaseScraper._should_continue(page_num)
should_continue(p, m) ==
    IF p > max_pages THEN FALSE
    ELSE IF m.errors >= TooManyErrors THEN FALSE
    ELSE TRUE

\* faulty variant of extract_products: a selector locating MinCards elements is
\* accepted
RECURSIVE extract_products_at_least(_)
extract_products_at_least(matches) ==
    IF matches = <<>> THEN 0
    ELSE IF Head(matches) >= MinCards THEN Head(matches)
    ELSE extract_products_at_least(Tail(matches))

\* BaseScraper._extract_products: `matches` gives, per product-card selector
\* in order, the number of elements it locates, or -1 when locating raises.
\* The first selector locating more than MinCards elements wins; otherwise
\* the page yields no elements.
RECURSIVE extract_products(_)
extract_products(matches) ==
    IF matches = <<>> THEN 0
    ELSE IF Head(matches) > MinCards THEN Head(matches)
    ELSE extract_products(Tail(matches))

MatchCounts == (0..MaxCards) \cup {-1}
SelectorMatches == [1..NumSelectors -> MatchCounts]

\* BaseScraper._process_product: what happens to one element.
\*   "saved"   extraction valid, enriched, repo.create succeeded
\*   "invalid" _validate_extraction returned False (or unknown store name)
\*   "raises"  extraction, enrichment or persistence raised an Exception
ElementOutcomes == {"saved", "invalid", "raises"}

\* faulty variant of process_product: the try/except is missing
process_product_uncaught(o) ==
    CASE o = "saved" -> "True"
      [] o = "invalid" -> "False"
      [] OTHER -> "propagate"

\* Result of _process_product: "True" / "False", or "propagate" when an
\* exception leaves the method.  The body is one try/except Exception.
process_product(o) ==
    IF o = "saved" THEN "True" ELSE "False"

\* faulty variant of IncErrors: a failed page is also counted as scraped
IncErrors_AndPage(m) ==
    [m EXCEPT !.errors = @ + 1, !.pages_scraped = @ + 1]

\* `self.metrics.errors += 1`
IncErrors(m) == [m EXCEPT !.errors = @ + 1]

\* faulty variant of CaptchaDetectedHandler: the CAPTCHA page is skipped like a page
\* that failed to load
CaptchaDetectedHandler_Continues ==
    /\ metrics' = [metrics EXCEPT !.captchas_detected = @ + 1]
    /\ attempts' = Append(attempts, "captcha")
    /\ page_num' = page_num + 1
    /\ pc' = "should_continue"

\* run(): `except CaptchaDetected: captchas_detected += 1; break`
CaptchaDetectedHandler ==
    /\ metrics' = [metrics EXCEPT !.captchas_detected = @ + 1]
    /\ attempts' = Append(attempts, "captcha")
    /\ pc' = "cleanup"
    /\ UNCHANGED page_num

\* faulty variant of PageLoadErrorHandler: the page that failed to load is
\* requested again
PageLoadErrorHandler_Retries ==
    /\ metrics' = IncErrors(metrics)
    /\ attempts' = Append(attempts, "page_load_error")
    /\ pc' = "should_continue"
    /\ UNCHANGED page_num

\* run(): `except PageLoadError: errors += 1; page_num += 1`
PageLoadErrorHandler ==
    /\ metrics' = IncErrors(metrics)
    /\ attempts' = Append(attempts, "page_load_error")
    /\ page_num' = page_num + 1
    /\ pc' = "should_continue"

\* faulty variant of ExceptionHandler: an unexpected exception is treated as
\* recoverable and the loop goes on with the next page
ExceptionHandler_Continues ==
    /\ metrics' = IncErrors(metrics)
    /\ attempts' = Append(attempts, "error")
    /\ page_num' = page_num + 1
    /\ pc' = "should_continue"

\* run(): `except Exception: errors += 1; break`
ExceptionHandler ==
    /\ metrics' = IncErrors(metrics)
    /\ attempts' = Append(attempts, "error")
    /\ pc' = "cleanup"
    /\ UNCHANGED page_num

\* faulty variant of CountPage: products_found is not updated before the elements
\* are processed
CountPage_FoundLater(m, n) == [m EXCEPT !.pages_scraped = @ + 1]

\* _scrape_page: `pages_scraped += 1; products_found += len(products)`
CountPage(m, n) ==
    [m EXCEPT !.pages_scraped = @ + 1, !.products_found = @ + n]

\* BaseScraper(config).run(): the scraper is built with its configuration
\* (ScraperConfig does not validate max_pages), then run() sets
\* metrics.started_at = now and enters the try block.
RunStart ==
    /\ pc = "idle"
    /\ uc_pc = "idle"
    /\ max_pages' \in 0..MaxPages
    /\ pc' = "setup"
    /\ metrics' = [metrics EXCEPT !.started_at = TRUE]
    /\ UNCHANGED <<page_num, browser, products, exc, requested,
                   attempts, calls>>
    /\ UNCHANGED <<caught, maintenance, few_elements, recorded, ucVars,
                   extVars>>

\* faulty variant of OuterExceptionHandler: the failure of _setup_browser is
\* swallowed and the page loop is entered
OuterExceptionHandler_EntersLoop ==
    /\ pc' = "should_continue"
    /\ page_num' = 1
    /\ UNCHANGED metrics

\* run(): the outer `except Exception: errors += 1`, then the finally block
OuterExceptionHandler ==
    /\ pc' = "cleanup"
    /\ metrics' = IncErrors(metrics)
    /\ UNCHANGED page_num

\* await self._setup_browser(); a failure is caught by the outer
\* `except Exception` of run().
SetupOutcomes == {"ok", "fail_start", "fail_launch", "fail_context"}
SetupBrowser ==
    /\ pc = "setup"
    /\ \E o \in SetupOutcomes :
        /\ browser' = CASE o = "fail_start"  -> "none"
                        [] o = "fail_launch" -> "playwright"
                        [] OTHER             -> "open"
        /\ IF o = "ok"
           THEN /\ pc' = "should_continue"
                /\ page_num' = 1
                /\ UNCHANGED metrics
                /\ calls' = Append(calls, "setup")
           ELSE /\ OuterExceptionHandler
                /\ calls' = calls \o <<"setup", "setup_raised">>
    /\ UNCHANGED <<max_pages, products, exc, requested, attempts>>
    /\ UNCHANGED <<caught, maintenance, few_elements, recorded, ucVars,
                   extVars>>

\* `while self._should_continue(page_num):`
ShouldContinue ==
    /\ pc = "should_continue"
    /\ pc' = IF should_continue(page_num, metrics) THEN "load" ELSE "cleanup"
    /\ UNCHANGED <<max_pages, page_num, metrics, browser, products, exc,
                   requested, attempts, calls>>
    /\ UNCHANGED <<caught, maintenance, few_elements, recorded, ucVars,
                   extVars>>

\* What a call of the store's _load_page meets.
\*   "ok"              the page loaded
\*   "page_load_error" page.goto failed or gave no response
\*   "maintenance"     the page loaded and its title carries the maintenance
\*                     phrase (PichauScraper._load_page)
\*   "raises"          page.title() raised (PichauScraper._load_page)
LoadOutcomes == {"ok", "page_load_error", "maintenance", "raises"}

\* faulty variant of load_page: the title of the loaded page is not inspected
load_page_without_title_check(o) ==
    CASE o \in {"ok", "maintenance"} -> "return"
      [] o = "page_load_error" -> "PageLoadError"
      [] OTHER -> "Exception"

\* PichauScraper._load_page on top of BaseScraper._load_page: how the call
\* ends.  BaseScraper._load_page turns every Exception into PageLoadError;
\* the override raises PageLoadError for a maintenance title and lets an
\* exception of page.title() through.
load_page(o) ==
    CASE o = "ok" -> "return"
      [] o \in {"page_load_error", "maintenance"} -> "PageLoadError"
      [] OTHER -> "Exception"

\* _scrape_page: build_url, then `await self._load_page(url)`.
LoadPage ==
    /\ pc = "load"
    /\ requested' = Append(requested, page_num)
    /\ calls' = Append(calls, "goto")
    /\ \E o \in LoadOutcomes :
        /\ maintenance' = (o = "maintenance")
        /\ CASE load_page(o) = "return" ->
                /\ pc' = "captcha"
                /\ UNCHANGED <<page_num, metrics, attempts>>
             [] load_page(o) = "PageLoadError" -> PageLoadErrorHandler
             [] OTHER -> ExceptionHandler
    /\ UNCHANGED <<max_pages, browser, products, exc>>
    /\ UNCHANGED <<caught, few_elements, recorded, ucVars, extVars>>

\* page_num += 1 after _scrape_page returned
PageScraped ==
    /\ page_num' = page_num + 1
    /\ attempts' = Append(attempts, "scraped")
    /\ pc' = "should_continue"

\* `if await self._check_captcha(): raise CaptchaDetected()`
CaptchaOutcomes == {"clear", "captcha", "raises"}
CheckCaptcha ==
    /\ pc = "captcha"
    /\ \E o \in CaptchaOutcomes :
        CASE o = "clear" ->
                /\ pc' = "extract"
                /\ UNCHANGED <<page_num, metrics, attempts>>
          [] o = "captcha" -> CaptchaDetectedHandler
          [] OTHER -> ExceptionHandler
    /\ UNCHANGED <<max_pages, browser, products, exc, requested, calls>>
    /\ UNCHANGED <<caught, maintenance, few_elements, recorded, ucVars,
                   extVars>>

\* products = await self._extract_products();
\* pages_scraped += 1; products_found += len(products)
ExtractProducts ==
    /\ pc = "extract"
    /\ \E matches \in SelectorMatches :
        LET n == extract_products(matches) IN
        /\ products' = n
        /\ few_elements' = (\A i \in DOMAIN matches : matches[i] <= MinCards)
        /\ metrics' = CountPage(metrics, n)
        /\ IF n = 0
           THEN PageScraped
           ELSE /\ pc' = "process"
                /\ UNCHANGED <<page_num, attempts>>
    /\ UNCHANGED <<max_pages, browser, exc, requested, calls>>
    /\ UNCHANGED <<caught, maintenance, recorded, ucVars, extVars>>

\* one iteration of `for product in products:`
ProcessProduct ==
    /\ pc = "process"
    /\ products > 0
    /\ \E o \in ElementOutcomes :
        LET r == process_product(o) IN
        /\ caught' = (caught \/ (o = "raises" /\ r = "False"))
        /\ CASE r = "True" ->
                /\ metrics' = [metrics EXCEPT !.products_saved = @ + 1]
                /\ products' = products - 1
                /\ IF products' = 0 THEN PageScraped
                   ELSE UNCHANGED <<pc, page_num, attempts>>
          [] r = "False" ->
                /\ metrics' = [metrics EXCEPT !.products_skipped = @ + 1]
                /\ products' = products - 1
                /\ IF products' = 0 THEN PageScraped
                   ELSE UNCHANGED <<pc, page_num, attempts>>
          [] OTHER ->
                \* an exception leaving _scrape_page
                /\ ExceptionHandler
                /\ UNCHANGED products
    /\ UNCHANGED <<max_pages, browser, exc, requested, calls>>
    /\ UNCHANGED <<maintenance, few_elements, recorded, ucVars, extVars>>

\* The task running run() is cancelled while it is suspended in an await of
\* the try block: CancelledError passes every `except Exception` and control
\* goes to the finally block.  (A cancellation delivered inside one of the
\* bare `except:` clauses of _extract_products/_extract_text is swallowed
\* there and is one of the ordinary outcomes above.)
AwaitPoints == {"setup", "load", "captcha", "extract", "process"}

\* faulty variant of Cancel: the release step is not in a finally block, so a
\* cancellation leaves run() without it
Cancel_SkipsFinally ==
    /\ pc \in AwaitPoints
    /\ exc' = "CancelledError"
    /\ pc' = "raised"
    /\ IF pc = "setup"
       THEN /\ browser' \in {"none", "playwright", "open"}
            /\ calls' = Append(calls, "setup")
       ELSE UNCHANGED <<browser, calls>>
    /\ UNCHANGED <<max_pages, page_num, metrics, products, requested,
                   attempts>>
    /\ UNCHANGED <<caught, maintenance, few_elements, recorded, ucVars,
                   extVars>>

Cancel ==
    /\ pc \in AwaitPoints
    /\ exc' = "CancelledError"
    /\ pc' = "cleanup"
    /\ IF pc = "setup"
       THEN /\ browser' \in {"none", "playwright", "open"}
            /\ calls' = Append(calls, "setup")
       ELSE UNCHANGED <<browser, calls>>
    /\ UNCHANGED <<max_pages, page_num, metrics, products, requested,
                   attempts>>
    /\ UNCHANGED <<caught, maintenance, few_elements, recorded, ucVars,
                   extVars>>

\* finally: await self._cleanup_browser(); metrics.finished_at = now;
\* then `return self.metrics`, or the pending exception is re-raised.
\* _cleanup_browser awaits browser.close() / playwright.stop() when they
\* were acquired; either can raise, and the await can be cancelled.
CleanupOutcomes == {"ok", "raises", "cancelled"}
CleanupBrowser ==
    /\ pc = "cleanup"
    /\ calls' = Append(calls, "cleanup")
    /\ \E o \in CleanupOutcomes :
        /\ o # "ok" => browser # "none"
        /\ CASE o = "ok" ->
                /\ browser' = IF browser = "none" THEN "none" ELSE "closed"
                /\ metrics' = [metrics EXCEPT !.finished_at = TRUE]
                /\ pc' = IF exc = "none" THEN "returned" ELSE "raised"
                /\ UNCHANGED exc
             [] o = "raises" ->
                /\ exc' = "Exception"
                /\ pc' = "raised"
                /\ UNCHANGED <<browser, metrics>>
             [] OTHER ->
                /\ exc' = "CancelledError"
                /\ pc' = "raised"
                /\ UNCHANGED <<browser, metrics>>
    /\ UNCHANGED <<max_pages, page_num, products, requested, attempts>>
    /\ UNCHANGED <<caught, maintenance, few_elements, recorded, ucVars,
                   extVars>>

\* ScraperRunRepository.create(metrics): the row written for a run copies
\* the counters and sets `success=metrics.errors == 0`.  NoRecord: nothing
\* was written.
NoRecord == [state |-> "none", success |-> FALSE, errors |-> 0,
             pages_scraped |-> 0]
create_run(m) == [state |-> "stored", success |-> (m.errors = 0),
                  errors |-> m.errors, pages_scraped |-> m.pages_scraped]

\* ScraperScheduler._run_scraper after `metrics = await scraper.run()`:
\* self._save_metrics(metrics), which opens a session and calls
\* ScraperRunRepository.create; _save_metrics logs and swallows an exception
\* of the session.  When run() raises, _save_metrics is not reached.
SaveMetricsOutcomes == {"ok", "raises"}
SaveMetrics ==
    /\ pc = "returned"
    /\ recorded.state = "none"
    /\ \E o \in SaveMetricsOutcomes :
        recorded' = IF o = "ok" THEN create_run(metrics)
                    ELSE [NoRecord EXCEPT !.state = "not_stored"]
    /\ UNCHANGED <<pc, max_pages, page_num, metrics, browser, products, exc,
                   requested, attempts, calls, caught, maintenance,
                   few_elements>>
    /\ UNCHANGED <<ucVars, extVars>>

RunInit ==
    /\ pc = "idle"
    /\ max_pages = 0
    /\ page_num = 0
    /\ metrics = ScraperMetrics
    /\ browser = "none"
    /\ products = 0
    /\ exc = "none"
    /\ requested = <<>>
    /\ attempts = <<>>
    /\ calls = <<>>
    /\ caught = FALSE
    /\ maintenance = FALSE
    /\ few_elements = FALSE
    /\ recorded = NoRecord

RunNext ==
    \/ RunStart
    \/ SetupBrowser
    \/ ShouldContinue
    \/ LoadPage
    \/ CheckCaptcha
    \/ ExtractProducts
    \/ ProcessProduct
    \/ Cancel
    \/ CleanupBrowser
    \/ SaveMetrics

\* ====================================================================
\* ScrapeStoreUseCase
\* ====================================================================

\* ScraperConfigDTO values handed to execute(); store names include the
\* empty and the whitespace-only string, max_pages and timeout include 0.
BlankStrings == {"", "   "}
Stores == BlankStrings \cup {"Pichau"}
Configs == [store : Stores, max_pages : 0..MaxUcPages, timeout : {0, 30000}]
NoConfig == [store |-> "", max_pages |-> 0, timeout |-> 0]

\* `not s or not s.strip()`
IsBlank(s) == s \in BlankStrings

\* ScraperConfigDTO.validate(): TRUE when it returns, FALSE when it raises
\* ValueError.
validate(cfg) ==
    /\ ~IsBlank(cfg.store)
    /\ ~(cfg.max_pages <= 0)
    /\ ~(cfg.timeout <= 0)

\* str(e) of a caught exception; the empty string is a possible value.
Messages == {"", "error"}

\* ScraperRun(store=...): field defaults.  id 0 stands for "no run yet".
\* (scraper_run.py declares `store` without a default after the defaulted
\* `id`; the class is modelled as its methods and its tests use it.)
NoRun ==
    [id |-> 0, started_at |-> FALSE, finished_at |-> FALSE,
     products_found |-> 0, products_saved |-> 0, products_skipped |-> 0,
     pages_scraped |-> 0, errors |-> 0, captchas_detected |-> 0,
     success |-> FALSE, error_message |-> "None", products |-> {}]
ScraperRun == [NoRun EXCEPT !.id = 1, !.started_at = TRUE]

\* ScraperRun.start
start(r) == [r EXCEPT !.started_at = TRUE, !.finished_at = FALSE,
                      !.success = FALSE]
\* ScraperRun.finish_successfully
finish_successfully(r) ==
    [r EXCEPT !.finished_at = TRUE, !.success = TRUE, !.error_message = "None"]
\* ScraperRun.finish_with_error
finish_with_error(r, msg) ==
    [r EXCEPT !.finished_at = TRUE, !.success = FALSE, !.error_message = msg]
\* ScraperRun.increment_*
increment_products_found(r) == [r EXCEPT !.products_found = @ + 1]
increment_products_saved(r) == [r EXCEPT !.products_saved = @ + 1]
increment_products_skipped(r) == [r EXCEPT !.products_skipped = @ + 1]
increment_pages_scraped(r) == [r EXCEPT !.pages_scraped = @ + 1]
increment_errors(r) == [r EXCEPT !.errors = @ + 1]
\* faulty variant of add_product: a product already in the run is counted again
add_product_counts_again(r, p) ==
    increment_products_found([r EXCEPT !.products = @ \cup {p}])

\* ScraperRun.add_product; products are compared by id (Product.__eq__)
add_product(r, p) ==
    IF p \notin r.products
    THEN increment_products_found([r EXCEPT !.products = @ \cup {p}])
    ELSE r

\* id of the Product built by _create_product_from_dto: uuid4(), an id that
\* no product of the run has.
FreshId(r) == Cardinality(r.products) + 1

\* the counters a page changes
Counters(r) == [found |-> r.products_found, saved |-> r.products_saved,
                skipped |-> r.products_skipped]

\* `except Exception as e: run.finish_with_error(str(e)); run.increment_errors()`
\* then the finally block
Failed(r, call) ==
    /\ \E msg \in Messages : run' = increment_errors(finish_with_error(r, msg))
    /\ uc_failed' = call
    /\ uc_pc' = "close"

\* a CancelledError raised in the try block: no handler, finally block next
Cancelled ==
    /\ uc_exc' = "CancelledError"
    /\ uc_pc' = "close"
    /\ UNCHANGED uc_failed

\* execute(config): config.validate(); run = ScraperRun(store); run.start()
Execute ==
    /\ uc_pc = "idle"
    /\ pc = "idle"
    /\ \E cfg \in Configs :
        /\ config' = cfg
        /\ IF validate(cfg)
           THEN /\ run' = start(ScraperRun)
                /\ uc_pc' = "initialize"
                /\ UNCHANGED uc_exc
           ELSE /\ uc_exc' = "ValueError"
                /\ uc_pc' = "raised"
                /\ UNCHANGED run
    /\ UNCHANGED <<uc_page_num, results, page_results, page_base,
                   uc_requested, uc_calls, uc_failed>>
    /\ UNCHANGED <<runVars, extVars>>

\* await self.browser.initialize(...); page_num = 1
CallOutcomes == {"ok", "raises", "cancelled"}
Initialize ==
    /\ uc_pc = "initialize"
    /\ uc_calls' = Append(uc_calls, "initialize")
    /\ \E o \in CallOutcomes :
        CASE o = "ok" ->
                /\ uc_page_num' = 1
                /\ uc_pc' = "loop"
                /\ UNCHANGED <<run, uc_exc, uc_failed>>
          [] o = "raises" ->
                /\ Failed(run, "initialize")
                /\ UNCHANGED <<uc_page_num, uc_exc>>
          [] OTHER ->
                /\ Cancelled
                /\ UNCHANGED <<uc_page_num, run>>
    /\ UNCHANGED <<config, results, page_results, page_base, uc_requested>>
    /\ UNCHANGED <<runVars, extVars>>

\* `while page_num <= config.max_pages:`; after the loop
\* run.finish_successfully()
Loop ==
    /\ uc_pc = "loop"
    /\ IF uc_page_num <= config.max_pages
       THEN /\ uc_pc' = "navigate"
            /\ UNCHANGED run
       ELSE /\ run' = finish_successfully(run)
            /\ uc_pc' = "close"
    /\ UNCHANGED <<config, uc_page_num, results, uc_exc, page_results,
                   page_base, uc_requested, uc_calls, uc_failed>>
    /\ UNCHANGED <<runVars, extVars>>

\* url = self.extractor.build_url(page_num);
\* await self.browser.navigate(url, timeout=config.timeout)
NavigateOutcomes == {"ok", "build_url_raises", "navigate_raises", "cancelled"}
Navigate ==
    /\ uc_pc = "navigate"
    /\ \E o \in NavigateOutcomes :
        /\ IF o = "build_url_raises"
           THEN UNCHANGED <<uc_requested, uc_calls>>
           ELSE /\ uc_requested' = Append(uc_requested, uc_page_num)
                /\ uc_calls' = Append(uc_calls, "navigate")
        /\ CASE o = "ok" ->
                /\ uc_pc' = "extract"
                /\ page_base' = Counters(run)
                /\ UNCHANGED <<run, uc_exc, uc_failed>>
             [] o = "cancelled" ->
                /\ Cancelled
                /\ UNCHANGED <<run, page_base>>
             [] OTHER ->
                /\ Failed(run, IF o = "navigate_raises" THEN "navigate"
                                                        ELSE "build_url")
                /\ UNCHANGED <<uc_exc, page_base>>
    /\ UNCHANGED <<config, uc_page_num, results, page_results>>
    /\ UNCHANGED <<runVars, extVars>>

\* page_content = await self.browser.get_page_content();
\* extraction_results = await self.extractor.extract_products(page_content)
\* A result is modelled by the value of its is_valid().
ResultLists == UNION {[1..n -> BOOLEAN] : n \in 0..MaxResults}
ExtractResults ==
    /\ uc_pc = "extract"
    /\ \E o \in CallOutcomes :
        CASE o = "ok" ->
                \E rs \in ResultLists :
                    /\ results' = rs
                    /\ page_results' = rs
                    /\ uc_pc' = IF rs = <<>> THEN "page_done" ELSE "process"
                    /\ UNCHANGED <<run, uc_exc, uc_failed>>
          [] o = "raises" ->
                /\ Failed(run, "extract_products")
                /\ UNCHANGED <<results, page_results, uc_exc>>
          [] OTHER ->
                /\ Cancelled
                /\ UNCHANGED <<results, page_results, run>>
    /\ UNCHANGED <<config, uc_page_num, page_base, uc_requested, uc_calls>>
    /\ UNCHANGED <<runVars, extVars>>

\* one iteration of `for result in extraction_results:`
\*   run.increment_products_found()
\*   if result.is_valid(): product = self._create_product_from_dto(...)
\*                         saved_product = self.product_repo.save(product)
\*                         run.add_product(saved_product)
\*                         run.increment_products_saved()
\*   else:                 run.increment_products_skipped()
\* _create_product_from_dto raises ValueError when Price.from_string,
\* ProductUrl or Product reject the data; product_repo.save can raise; it
\* returns the product it was given or a stored product, which may be one
\* the run already holds.
SaveOutcomes == {"returns_given", "returns_held", "create_raises", "save_raises"}
ProcessResult ==
    /\ uc_pc = "process"
    /\ results # <<>>
    /\ LET found == increment_products_found(run) IN
       IF Head(results)
       THEN \E o \in SaveOutcomes :
              CASE o = "returns_given" ->
                      /\ run' = increment_products_saved(
                                    add_product(found, FreshId(found)))
                      /\ results' = Tail(results)
                      /\ uc_pc' = IF results' = <<>> THEN "page_done" ELSE "process"
                      /\ UNCHANGED uc_failed
                [] o = "returns_held" ->
                      /\ \E p \in found.products :
                            run' = increment_products_saved(add_product(found, p))
                      /\ results' = Tail(results)
                      /\ uc_pc' = IF results' = <<>> THEN "page_done" ELSE "process"
                      /\ UNCHANGED uc_failed
                [] OTHER ->
                      /\ Failed(found, IF o = "create_raises"
                                       THEN "_create_product_from_dto"
                                       ELSE "product_repo.save")
                      /\ UNCHANGED results
       ELSE /\ run' = increment_products_skipped(found)
            /\ results' = Tail(results)
            /\ uc_pc' = IF results' = <<>> THEN "page_done" ELSE "process"
            /\ UNCHANGED uc_failed
    /\ UNCHANGED <<config, uc_page_num, uc_exc, page_results, page_base,
                   uc_requested, uc_calls>>
    /\ UNCHANGED <<runVars, extVars>>

\* run.increment_pages_scraped();
\* if not self.extractor.should_continue(page_num, run.products_found): break
\* page_num += 1
ContinueOutcomes == {"True", "False", "raises"}
PageDone ==
    /\ uc_pc = "page_done"
    /\ LET scraped == increment_pages_scraped(run) IN
       \E o \in ContinueOutcomes :
        CASE o = "True" ->
                /\ run' = scraped
                /\ uc_page_num' = uc_page_num + 1
                /\ uc_pc' = "loop"
                /\ UNCHANGED uc_failed
          [] o = "False" ->
                \* break; run.finish_successfully()
                /\ run' = finish_successfully(scraped)
                /\ uc_pc' = "close"
                /\ UNCHANGED <<uc_page_num, uc_failed>>
          [] OTHER ->
                /\ Failed(scraped, "should_continue")
                /\ UNCHANGED uc_page_num
    /\ UNCHANGED <<config, results, uc_exc, page_results, page_base,
                   uc_requested, uc_calls>>
    /\ UNCHANGED <<runVars, extVars>>

\* faulty variant of Close: run_repo.save is reached only when the try block
\* finished the run successfully
Close_SavesOnSuccessOnly ==
    /\ uc_pc = "close"
    /\ uc_calls' = Append(uc_calls, "close")
    /\ \E o \in CallOutcomes :
        CASE o = "ok" ->
                /\ uc_pc' = IF run.success THEN "save_run"
                            ELSE IF uc_exc = "none" THEN "returned"
                            ELSE "raised"
                /\ UNCHANGED uc_exc
          [] o = "raises" ->
                /\ uc_exc' = "Exception"
                /\ uc_pc' = "raised"
          [] OTHER ->
                /\ uc_exc' = "CancelledError"
                /\ uc_pc' = "raised"
    /\ UNCHANGED <<config, run, uc_page_num, results, page_results, page_base,
                   uc_requested, uc_failed>>
    /\ UNCHANGED <<runVars, extVars>>

\* finally: await self.browser.close()
\* An exception of close() replaces the pending one and skips the rest of
\* the finally block.
Close ==
    /\ uc_pc = "close"
    /\ uc_calls' = Append(uc_calls, "close")
    /\ \E o \in CallOutcomes :
        CASE o = "ok" ->
                /\ uc_pc' = "save_run"
                /\ UNCHANGED uc_exc
          [] o = "raises" ->
                /\ uc_exc' = "Exception"
                /\ uc_pc' = "raised"
          [] OTHER ->
                /\ uc_exc' = "CancelledError"
                /\ uc_pc' = "raised"
    /\ UNCHANGED <<config, run, uc_page_num, results, page_results, page_base,
                   uc_requested, uc_failed>>
    /\ UNCHANGED <<runVars, extVars>>

\* finally: self.run_repo.save(run); then `return self._create_metrics_dto(run)`
\* or the pending exception is re-raised
SaveRun ==
    /\ uc_pc = "save_run"
    /\ uc_calls' = Append(uc_calls, "run_repo.save")
    /\ \E o \in {"ok", "raises"} :
        IF o = "ok"
        THEN /\ uc_pc' = IF uc_exc = "none" THEN "returned" ELSE "raised"
             /\ UNCHANGED uc_exc
        ELSE /\ uc_exc' = "Exception"
             /\ uc_pc' = "raised"
    /\ UNCHANGED <<config, run, uc_page_num, results, page_results, page_base,
                   uc_requested, uc_failed>>
    /\ UNCHANGED <<runVars, extVars>>

UcInit ==
    /\ uc_pc = "idle"
    /\ config = NoConfig
    /\ run = NoRun
    /\ uc_page_num = 0
    /\ results = <<>>
    /\ uc_exc = "none"
    /\ page_results = <<>>
    /\ page_base = Counters(NoRun)
    /\ uc_requested = <<>>
    /\ uc_calls = <<>>
    /\ uc_failed = "none"

UcNext ==
    \/ Execute
    \/ Initialize
    \/ Loop
    \/ Navigate
    \/ ExtractResults
    \/ ProcessResult
    \/ PageDone
    \/ Close
    \/ SaveRun

\* ====================================================================
\* One extraction result: validation and hand-over to the repository
\*   BaseScraper._process_product        (base.py)
\*   the loop body of ScrapeStoreUseCase.execute (scrape_store.py)
\* ====================================================================

\* base.py:178  `result.price_value < 100 or result.price_value > 50000`
MinPrice == 100
MaxPrice == 50000
\* price_value is held in centavos
Cents == 100

\* Strings are sequences of one-character strings where the code inspects
\* their characters (price_raw) and plain strings otherwise.  None and the
\* empty string are both falsy; the empty string stands for both.
Titles == {"", "   ", "RTX 4070 Ti"}
RelativeUrls == {"/produto/rtx-4070"}
Urls == {"", "   ", "https://www.pichau.com.br/rtx-4070"} \cup RelativeUrls

PriceStrings ==
    { <<>>,
      <<" ", " ">>,
      <<"R", "$", " ", "0", ",", "0", "0">>,
      <<"R", "$", " ", "5", "0", ",", "0", "0">>,
      <<"R", "$", " ", "9", "9", ",", "9", "9">>,
      <<"R", "$", " ", "1", "0", "0", ",", "0", "0">>,
      <<"R", "$", " ", "2", ".", "5", "0", "0", ",", "0", "0">>,
      <<"2", ",", "5", "0", "0", ".", "0", "0">>,
      <<"R", "$", " ", "5", "0", ".", "0", "0", "0", ",", "0", "0">>,
      <<"R", "$", " ", "5", "0", ".", "0", "0", "0", ",", "0", "1">>,
      <<"R", "$", " ", "1", "0", "0", ".", "0", "0", "0", ",", "0", "0">>,
      <<"R", "$", " ", "-", "5", "0", ",", "0", "0">>,
      <<"E", "s", "g", "o", "t", "a", "d", "o">> }

\* price_value (float) in centavos; 0 stands for None and for 0.0
PriceValues ==
    {-50 * Cents, 0, 50 * Cents, MinPrice * Cents - 1, MinPrice * Cents,
     MaxPrice * Cents, MaxPrice * Cents + 1}

Items == [title : Titles, price_raw : PriceStrings,
          price_value : PriceValues, url : Urls]
NoItem == [title |-> "", price_raw |-> <<>>, price_value |-> 0, url |-> ""]

\* ---- character-level string functions of Python
Has(s, c) == \E i \in DOMAIN s : s[i] = c
\* str.rindex(c), for a c that occurs in s
RIndex(s, c) == CHOOSE i \in DOMAIN s : s[i] = c /\ \A j \in DOMAIN s : s[j] = c => j <= i
\* str.replace(a, b) for single characters
Replace(s, a, b) == [i \in DOMAIN s |-> IF s[i] = a THEN b ELSE s[i]]
\* removal of every character of cs
Remove(s, cs) == SelectSeq(s, LAMBDA c : c \notin cs)
RECURSIVE LStrip(_)
LStrip(s) == IF s # <<>> /\ Head(s) = " " THEN LStrip(Tail(s)) ELSE s
RECURSIVE RStrip(_)
RStrip(s) ==
    IF s # <<>> /\ s[Len(s)] = " " THEN RStrip(SubSeq(s, 1, Len(s) - 1)) ELSE s
\* str.strip()
Strip(s) == RStrip(LStrip(s))

DigitChars == {"0", "1", "2", "3", "4", "5", "6", "7", "8", "9"}
DigitValue(c) ==
    CASE c = "0" -> 0 [] c = "1" -> 1 [] c = "2" -> 2 [] c = "3" -> 3
      [] c = "4" -> 4 [] c = "5" -> 5 [] c = "6" -> 6 [] c = "7" -> 7
      [] c = "8" -> 8 [] c = "9" -> 9
\* the natural number written by a sequence of digit characters
RECURSIVE DigitsToNat(_)
DigitsToNat(ds) ==
    IF ds = <<>> THEN 0
    ELSE 10 * DigitsToNat(SubSeq(ds, 1, Len(ds) - 1)) + DigitValue(ds[Len(ds)])
\* decimal.Decimal(text) for texts over digits, '.', a sign and other
\* characters: the number is sign * num / 10^scale, ok = FALSE stands for
\* InvalidOperation.
NoDecimal == [ok |-> FALSE, negative |-> FALSE, num |-> 0, scale |-> 0]
Decimal(text) ==
    LET signed == text # <<>> /\ Head(text) \in {"-", "+"}
        body == IF signed THEN Tail(text) ELSE text
        digits == Remove(body, {"."})
        dots == Cardinality({i \in DOMAIN body : body[i] = "."})
    IN  IF /\ digits # <<>>
           /\ \A i \in DOMAIN digits : digits[i] \in DigitChars
           /\ dots <= 1
        THEN [ok |-> TRUE,
              negative |-> (signed /\ Head(text) = "-"),
              num |-> DigitsToNat(digits),
              scale |-> IF dots = 1 THEN Len(body) - RIndex(body, ".") ELSE 0]
        ELSE NoDecimal

\* faulty variant of clean_price_string: the comma is always the decimal separator
clean_price_string_brazilian(price_str) ==
    LET cleaned == Remove(Strip(price_str), {"R", "$", " "}) IN
    IF Has(cleaned, ",")
    THEN Replace(Remove(cleaned, {"."}), ",", ".")
    ELSE cleaned

\* Price.from_string up to the Decimal: strip, drop 'R', '$' and whitespace,
\* decide which separator is the decimal one
clean_price_string(price_str) ==
    LET cleaned == Remove(Strip(price_str), {"R", "$", " "}) IN
    IF Has(cleaned, ",") /\ Has(cleaned, ".")
    THEN IF RIndex(cleaned, ",") > RIndex(cleaned, ".")
         THEN Replace(Remove(cleaned, {"."}), ",", ".")
         ELSE Remove(cleaned, {","})
    ELSE IF Has(cleaned, ",")
         THEN Replace(cleaned, ",", ".")
         ELSE cleaned

\* Price._validate: amount < 0 and amount == 0 raise ValueError
Price_validate(amount) == ~amount.negative /\ amount.num # 0

\* Price.from_string(price_str): the Price, or ok = FALSE for ValueError
from_string(price_str) ==
    IF price_str = <<>> \/ Strip(price_str) = <<>>
    THEN NoDecimal
    ELSE LET amount == Decimal(clean_price_string(price_str)) IN
         IF amount.ok /\ Price_validate(amount) THEN amount ELSE NoDecimal

\* ProductUrl._validate: not blank, scheme http/https and a domain
ProductUrl_validate(u) == u \notin {"", "   "} \cup RelativeUrls
\* Product._validate: title not blank (and at most 500 characters), store
\* not blank
Product_validate(t) == t \notin {"", "   "}

\* ExtractionResult.is_valid (scrapers/models.py): truthiness of the fields
ExtractionResult_is_valid(r) ==
    /\ r.title # ""
    /\ r.price_raw # <<>>
    /\ r.price_value # 0 /\ r.price_value > 0
    /\ r.url # ""

\* faulty variant of validate_extraction: the price range is not checked
validate_extraction_without_range(r) == ExtractionResult_is_valid(r)

\* BaseScraper._validate_extraction
validate_extraction(r) ==
    IF ~ExtractionResult_is_valid(r) THEN FALSE
    ELSE IF r.price_value # 0
         THEN IF r.price_value < MinPrice * Cents
                 \/ r.price_value > MaxPrice * Cents
              THEN FALSE
              ELSE TRUE
         ELSE TRUE

\* ExtractionResultDTO.is_valid (application/dtos/extraction_result.py):
\* `x and x.strip()` for the strings
ExtractionResultDTO_is_valid(r) ==
    /\ r.title # "" /\ r.title # "   "
    /\ r.price_raw # <<>> /\ Strip(r.price_raw) # <<>>
    /\ r.price_value # 0 /\ r.price_value > 0
    /\ r.url # "" /\ r.url # "   "

\* ScrapeStoreUseCase._create_product_from_dto: TRUE when the Product is
\* built, FALSE when Price.from_string, ProductUrl or Product raises
create_product_from_dto(r) ==
    /\ from_string(r.price_raw).ok
    /\ ProductUrl_validate(r.url)
    /\ Product_validate(r.title)

\* what became of the item:
\*   by        "none", "_process_product" or "execute"
\*   counted   the counter that was incremented: "saved", "skipped", "none"
\*   persisted ProductRepository.create / product_repo.save was called with
\*             the product built from the item
\*   raised    an exception left the step
NotHandled == [by |-> "none", counted |-> "none", persisted |-> FALSE,
               raised |-> FALSE]

\* BaseScraper._process_product on the item, and the counting of its result
\* in _scrape_page.
\*   "ok"             the product is built and repo.create returns
\*   "unknown_store"  the store name maps to no Store value: return False
\*   "model_rejects"  ProductEnricher or EnrichedProduct(...) raises
\*   "create_raises"  repo.create or the session raises
ProcessOutcomes == {"ok", "unknown_store", "model_rejects", "create_raises"}
ProcessElement ==
    /\ handled.by = "none"
    /\ \E o \in ProcessOutcomes :
        handled' =
            IF ~validate_extraction(item)
            THEN [by |-> "_process_product", counted |-> "skipped",
                  persisted |-> FALSE, raised |-> FALSE]
            ELSE CASE o = "ok" ->
                        [by |-> "_process_product", counted |-> "saved",
                         persisted |-> TRUE, raised |-> FALSE]
                   [] o = "create_raises" ->
                        [by |-> "_process_product", counted |-> "skipped",
                         persisted |-> TRUE, raised |-> FALSE]
                   [] OTHER ->
                        [by |-> "_process_product", counted |-> "skipped",
                         persisted |-> FALSE, raised |-> FALSE]
    /\ UNCHANGED <<item, runVars, ucVars, repoVars, moreVars>>

\* The loop body of execute on the item: is_valid, _create_product_from_dto,
\* product_repo.save, increment_products_saved / increment_products_skipped.
RepoSaveOutcomes == {"ok", "raises"}
ProcessDto ==
    /\ handled.by = "none"
    /\ \E o \in RepoSaveOutcomes :
        handled' =
            IF ~ExtractionResultDTO_is_valid(item)
            THEN [by |-> "execute", counted |-> "skipped",
                  persisted |-> FALSE, raised |-> FALSE]
            ELSE IF ~create_product_from_dto(item)
            THEN [by |-> "execute", counted |-> "none",
                  persisted |-> FALSE, raised |-> TRUE]
            ELSE IF o = "ok"
            THEN [by |-> "execute", counted |-> "saved",
                  persisted |-> TRUE, raised |-> FALSE]
            ELSE [by |-> "execute", counted |-> "none",
                  persisted |-> TRUE, raised |-> TRUE]
    /\ UNCHANGED <<item, runVars, ucVars, repoVars, moreVars>>

ItemIdle ==
    /\ item = NoItem
    /\ handled = NotHandled

ItemNext ==
    \/ ProcessElement
    \/ ProcessDto

\* ====================================================================
\* ProductRepository.create over database sessions
\*   backend/core/repository.py, backend/core/database.py,
\*   backend/core/database_models.py
\* ====================================================================

\* EnrichedProduct values handed to create().  `model` stands for the fields
\* copied like it (chip_brand, manufacturer, model, scraped_at), `price` for
\* price.raw and price.value.
ProductUrls == {"https://example.com/product/789",
                "https://example.com/product/790"}
EnrichedProducts ==
    { [url |-> "https://example.com/product/789", title |-> "Product V1",
       price |-> 1000, model |-> "RTX 4070"],
      [url |-> "https://example.com/product/789", title |-> "Product V2",
       price |-> 900, model |-> "RTX 4070 Ti"],
      [url |-> "https://example.com/product/790", title |-> "Product V1",
       price |-> 1000, model |-> "RTX 4070"] }
NoProduct == [url |-> "", title |-> "", price |-> 0, model |-> ""]

\* the database sessions (one per orchestrator)
Sessions == {1, 2}

\* no row: the None of `.first()`
NoRow == [id |-> 0, url |-> "", title |-> "", price |-> 0, model |-> "",
          created_at |-> 0, updated_at |-> 0]

\* a session that is not open
ClosedSession == [pc |-> "closed", product |-> NoProduct, existing |-> NoRow,
                  pending |-> {}, raised |-> FALSE]

\* the rows session s sees: its own uncommitted rows, and the committed rows
\* it has not written
Visible(s) ==
    sessions[s].pending \cup
        {r \in table : \A q \in sessions[s].pending : q.id # r.id}

\* uncommitted rows of the sessions other than s
PendingOfOthers(s) ==
    UNION {sessions[t].pending : t \in Sessions \ {s}}

\* `session.query(Product).filter(Product.url == str(product.url)).first()`:
\* the row found, as loaded into the session, NoRow for None
first_by_url(rows, url) ==
    IF \E r \in rows : r.url = url
    THEN CHOOSE r \in rows : r.url = url
    ELSE NoRow

\* session.flush() of a modified row: the UPDATE sets the columns whose
\* value differs from the one loaded, in the row as it is stored now
flush_update(stored, loaded, modified) ==
    [c \in DOMAIN stored |->
        IF modified[c] # loaded[c] THEN modified[c] ELSE stored[c]]

\* faulty variant of update_existing: the title of the stored row is kept
update_existing_keeps_title(row, product, now) ==
    [row EXCEPT !.price = product.price,
                !.model = product.model,
                !.updated_at = now]

\* create(), `if existing:` branch: the assignments to the row found
update_existing(row, product, now) ==
    [row EXCEPT !.title = product.title,
                !.price = product.price,
                !.model = product.model,
                !.updated_at = now]

\* create(), `else:` branch: Product(...) with the column defaults
\* created_at = updated_at = datetime.now and the autoincrement id
new_row(id, product, now) ==
    [id |-> id, url |-> product.url, title |-> product.title,
     price |-> product.price, model |-> product.model,
     created_at |-> now, updated_at |-> now]

\* create(product), first statement, in a session that is opened for it by
\* get_db_session() when none is open
Query(s) ==
    /\ sessions[s].pc \in {"closed", "open"}
    /\ Len(created) + Cardinality({t \in Sessions : sessions[t].pc = "queried"})
            < MaxCreates
    /\ \E product \in EnrichedProducts :
        sessions' = [sessions EXCEPT ![s] =
            [@ EXCEPT !.pc = "queried",
                      !.product = product,
                      !.existing = first_by_url(Visible(s), product.url)]]
    /\ UNCHANGED <<table, next_id, clock, created>>
    /\ UNCHANGED <<runVars, ucVars, itemVars, moreVars>>

\* create(product), the rest: update the row found or add a new one, then
\* session.flush().  The UPDATE / INSERT waits while another session holds
\* an uncommitted row with the same id / url; an INSERT of a url that a
\* committed row already has violates the unique constraint on
\* products.url: IntegrityError leaves create(), and get_db_session rolls
\* the session back and closes it.
Flush(s) ==
    /\ sessions[s].pc = "queried"
    /\ LET product == sessions[s].product
           existing == sessions[s].existing
       IN
       /\ \A q \in PendingOfOthers(s) :
            q.url # product.url /\ q.id # existing.id
       /\ \E now \in {clock, clock + 1} :
          /\ clock' = now
          /\ IF existing # NoRow
             THEN LET stored == CHOOSE r \in Visible(s) : r.id = existing.id
                      updated == flush_update(stored, existing,
                                     update_existing(existing, product, now))
                      others == {q \in Visible(s) : q.id # existing.id}
                  IN
                  /\ sessions' = [sessions EXCEPT ![s] =
                        [@ EXCEPT !.pc = "open",
                                  !.pending =
                                     {q \in @ : q.id # existing.id}
                                         \cup {updated}]]
                  /\ created' = Append(created,
                        [session |-> s, product |-> product,
                         id |-> existing.id,
                         rows |-> others \cup {updated}])
                  /\ UNCHANGED next_id
             ELSE IF \E r \in table : r.url = product.url
             THEN /\ sessions' = [sessions EXCEPT ![s] =
                        [ClosedSession EXCEPT !.raised = TRUE]]
                  /\ UNCHANGED <<next_id, created>>
             ELSE LET inserted == new_row(next_id, product, now) IN
                  /\ sessions' = [sessions EXCEPT ![s] =
                        [@ EXCEPT !.pc = "open",
                                  !.pending = @ \cup {inserted}]]
                  /\ created' = Append(created,
                        [session |-> s, product |-> product,
                         id |-> next_id,
                         rows |-> Visible(s) \cup {inserted}])
                  /\ next_id' = next_id + 1
    /\ UNCHANGED table
    /\ UNCHANGED <<runVars, ucVars, itemVars, moreVars>>

\* get_db_session(): `session.commit()` and `session.close()` when the with
\* block ends
Commit(s) ==
    /\ sessions[s].pc = "open"
    /\ table' = Visible(s)
    /\ sessions' = [sessions EXCEPT ![s] =
            [ClosedSession EXCEPT !.raised = sessions[s].raised]]
    /\ UNCHANGED <<next_id, clock, created>>
    /\ UNCHANGED <<runVars, ucVars, itemVars, moreVars>>

RepoIdle ==
    /\ table = {}
    /\ sessions = [s \in Sessions |-> ClosedSession]
    /\ next_id = 1
    /\ clock = 0
    /\ created = <<>>

\* create() calls made through one session at a time
SequentialNext ==
    \/ Query(1)
    \/ Flush(1)
    \/ Commit(1)

\* create() calls of concurrent sessions, interleaved in any order
ConcurrentNext ==
    \E s \in Sessions :
        \/ Query(s)
        \/ Flush(s)
        \/ Commit(s)

\* ====================================================================
\* The ScraperRun entity used on its own
\*   (src/src/scrapers/domain/entities/scraper_run.py)
\* ====================================================================

\* the products handed to add_product, told apart by Product.id
ProductIds == 1..MaxProducts

\* ScraperRun._validate on the counters: TRUE when it returns, FALSE when it
\* raises ValueError
ScraperRun_validate(r) ==
    /\ ~(r.products_found < 0)
    /\ ~(r.products_saved < 0)
    /\ ~(r.products_saved > r.products_found)

\* ScraperRun(store="Pichau", products_found=f, products_saved=s): the
\* dataclass constructor sets the fields and __post_init__ validates them
Constructed ==
    {r \in {[ScraperRun EXCEPT !.products_found = f, !.products_saved = s] :
                f, s \in 0..1} : ScraperRun_validate(r)}

\* one call of a public method on the entity: the entity after the call and
\* the entry of the history
Operation(name, arg, after) ==
    /\ Len(ops) < MaxOps
    /\ run' = after
    /\ ops' = Append(ops, [op |-> name, arg |-> arg])
    /\ UNCHANGED <<uc_pc, config, uc_page_num, results, uc_exc, page_results,
                   page_base, uc_requested, uc_calls, uc_failed>>
    /\ UNCHANGED <<runVars, itemVars, repoVars, callVars, apiVars,
                   schedulerVars>>

CallStart == Operation("start", 0, start(run))

CallIncrementProductsFound ==
    Operation("increment_products_found", 0, increment_products_found(run))

CallIncrementProductsSaved ==
    Operation("increment_products_saved", 0, increment_products_saved(run))

CallIncrementProductsSkipped ==
    Operation("increment_products_skipped", 0, increment_products_skipped(run))

CallAddProduct ==
    \E p \in ProductIds : Operation("add_product", p, add_product(run, p))

CallFinishSuccessfully ==
    Operation("finish_successfully", 0, finish_successfully(run))

CallFinishWithError ==
    \E msg \in Messages :
        Operation("finish_with_error", 0, finish_with_error(run, msg))

EntityIdle == ops = <<>>

EntityNext ==
    \/ CallStart
    \/ CallIncrementProductsFound
    \/ CallIncrementProductsSaved
    \/ CallIncrementProductsSkipped
    \/ CallAddProduct
    \/ CallFinishSuccessfully
    \/ CallFinishWithError

\* ====================================================================
\* Functions of the extraction layer, applied to one argument
\*   BaseScraper._extract_text      (src/src/scrapers/base.py)
\*   DataExtractor.extract_text     (src/src/scrapers/components/
\*                                   data_extractor.py)
\* ====================================================================

\* an Optional[str] result: None, or a string as its characters
None == [some |-> FALSE, value |-> <<>>]
Some(v) == [some |-> TRUE, value |-> v]

\* inner_text() of an element, as characters
Texts ==
    { <<" ", " ">>,
      <<" ", "R", "T", "X", " ">>,
      <<"G", "P", "U">> }

\* What a selector meets on the card: the locator, count() or inner_text()
\* raises, or the selector matches the elements whose texts are listed in
\* document order (none when the list is empty).
SelectorResults ==
    [raises : {TRUE}, texts : {<<>>}] \cup
    [raises : {FALSE},
     texts : UNION {[1..n -> Texts] : n \in 0..MaxMatches}]

\* a selector set: what each selector of the list meets, in list order
SelectorSets == UNION {[1..n -> SelectorResults] : n \in 0..MaxFallbacks}

\* faulty variant of extract_text: a selector that raises ends the search
RECURSIVE extract_text_stops_at_raise(_)
extract_text_stops_at_raise(selector_set) ==
    IF selector_set = <<>> THEN None
    ELSE LET sel == Head(selector_set) IN
         IF sel.raises THEN None
         ELSE IF sel.texts = <<>>
         THEN extract_text_stops_at_raise(Tail(selector_set))
         ELSE LET text == Strip(sel.texts[1]) IN
              IF text # <<>> THEN Some(text)
              ELSE extract_text_stops_at_raise(Tail(selector_set))

\* BaseScraper._extract_text(element, selector_set):
\*   for selector in selector_set:
\*       try:    el = element.locator(selector).first
\*               if await el.count():
\*                   text = (await el.inner_text()).strip()
\*                   if text: return text
\*       except: continue
\*   return None
RECURSIVE extract_text(_)
extract_text(selector_set) ==
    IF selector_set = <<>> THEN None
    ELSE LET sel == Head(selector_set) IN
         IF sel.raises THEN extract_text(Tail(selector_set))
         ELSE IF sel.texts = <<>> THEN extract_text(Tail(selector_set))
         ELSE LET text == Strip(sel.texts[1]) IN
              IF text # <<>> THEN Some(text)
              ELSE extract_text(Tail(selector_set))

\* DataExtractor.extract_text(element, selectors): the same loop on the
\* synchronous element API, with `except Exception` around each selector
RECURSIVE DataExtractor_extract_text(_)
DataExtractor_extract_text(selectors) ==
    IF selectors = <<>> THEN None
    ELSE LET sel == Head(selectors) IN
         IF sel.raises THEN DataExtractor_extract_text(Tail(selectors))
         ELSE IF sel.texts = <<>>
         THEN DataExtractor_extract_text(Tail(selectors))
         ELSE LET text == Strip(sel.texts[1]) IN
              IF text # <<>> THEN Some(text)
              ELSE DataExtractor_extract_text(Tail(selectors))

\* a function applied to one argument: before (done = FALSE) and after
NoCall == [fn |-> "none", arg |-> <<>>, done |-> FALSE, result |-> None]
Pending(fn, arg) == [fn |-> fn, arg |-> arg, done |-> FALSE, result |-> None]

\* what a step of this part leaves alone
Return(result) ==
    /\ fcall' = [fcall EXCEPT !.done = TRUE, !.result = result]
    /\ UNCHANGED <<runVars, ucVars, itemVars, repoVars, entityVars, apiVars,
                   schedulerVars>>

ExtractText ==
    /\ fcall.fn = "_extract_text"
    /\ ~fcall.done
    /\ Return(extract_text(fcall.arg))

DataExtractorExtractText ==
    /\ fcall.fn = "DataExtractor.extract_text"
    /\ ~fcall.done
    /\ Return(DataExtractor_extract_text(fcall.arg))

\* ---- PichauScraper.extract_price (src/src/scrapers/pichau.py)

\* pichau.py:104  `if clean_val > 100`
SaneMinimum == 100

\* The amounts that the pattern R\$\s*([\d\.,]+) and float() detect in the
\* text of a card, in centavos (the listed prices carry two decimals).
Amounts == {9999, 10000, 10251, 20000, 51255, 52941, 100000, 539999, 2699900}

\* The argument of extract_price: whether one of the price selectors matches
\* on the card without raising, and the amounts detected in the card's
\* text, in text order.
CardPrices ==
    [matched : BOOLEAN,
     amounts : UNION {[1..n -> Amounts] : n \in 0..MaxAmounts}]

\* max() and min() of a non-empty list
MaxOf(s) == CHOOSE v \in {s[i] : i \in DOMAIN s} : \A i \in DOMAIN s : s[i] <= v
MinOf(s) == CHOOSE v \in {s[i] : i \in DOMAIN s} : \A i \in DOMAIN s : v <= s[i]

\* The maxima of Amounts for which the double `max_val * 0.2` is smaller
\* than a fifth of max_val: 512.55 * 0.2 evaluates to 102.50999999999999
\* (1000.00 * 0.2 evaluates to 200.0).
RoundsBelowFifth == {51255}

\* `v > (max_val * 0.2)` on doubles.  For amounts with two decimals it is
\* 5v > max_val, except when v is exactly a fifth of max_val, where the
\* rounding of the product decides.
above_fifth(v, max_val) ==
    \/ 5 * v > max_val
    \/ 5 * v = max_val /\ max_val \in RoundsBelowFifth

\* extract_price:
\*   valid_values = [v for v in detected if v > 100]
\*   max_val = max(valid_values)
\*   real_prices = [v for v in valid_values if v > (max_val * 0.2)]
\*   best_price = min(real_prices) if real_prices else min(valid_values)
\* None when no selector matched or no value passed the sanity check (each
\* selector reads the text of the same card).
extract_price(card) ==
    LET valid_values == SelectSeq(card.amounts,
                                  LAMBDA v : v > SaneMinimum * Cents) IN
    IF ~card.matched \/ valid_values = <<>> THEN None
    ELSE LET max_val == MaxOf(valid_values)
             real_prices == SelectSeq(valid_values,
                                      LAMBDA v : above_fifth(v, max_val))
         IN  IF real_prices # <<>> THEN Some(MinOf(real_prices))
             ELSE Some(MinOf(valid_values))

ExtractPrice ==
    /\ fcall.fn = "extract_price"
    /\ ~fcall.done
    /\ Return(extract_price(fcall.arg))

\* ---- Price.from_string on strings of digits and separators
\*      (src/src/scrapers/domain/value_objects/price.py)

\* the strings handed to from_string: every string of up to MaxLen
\* characters over two digits and the two separators, bare or behind the
\* prefix "R$ ", and every string of the form "R$ D.DDD,DD" over four digits
PriceAlphabet == {"0", "5", ".", ","}
CurrencyPrefix == <<"R", "$", " ">>
ShortPrices ==
    LET bare == UNION {[1..n -> PriceAlphabet] : n \in 0..MaxLen} IN
    bare \cup {CurrencyPrefix \o s : s \in bare}
FormDigits == {"0", "2", "5", "9"}
FormattedPrices ==
    {CurrencyPrefix \o <<a, ".", b, c, d, ",", e, f>> :
        a \in FormDigits, b \in FormDigits, c \in FormDigits,
        d \in FormDigits, e \in FormDigits, f \in FormDigits}

FromString ==
    /\ fcall.fn = "from_string"
    /\ ~fcall.done
    /\ Return(from_string(fcall.arg))

CallIdle == fcall = NoCall

CallNext ==
    \/ ExtractText
    \/ DataExtractorExtractText
    \/ ExtractPrice
    \/ FromString

\* ====================================================================
\* The scrape endpoint: POST /run and its background tasks
\*   (src/src/backend/api/routes/scrapers.py)
\* ====================================================================

\* request.stores of a trigger: a list of Store values, possibly empty
StoreLists == {<<>>, <<"Kabum">>, <<"Pichau", "Kabum">>}

\* the POST /run requests
Triggers == 1..MaxTriggers

\* A background task: where it is in run_scrapers_background, the stores it
\* was given, and what became of each store it is done with, in order
\* ("crawled": run() returned and the metrics were stored; "failed": an
\* exception was logged by the `except Exception` of the loop body).
NoTask == [state |-> "none", stores |-> <<>>, done |-> <<>>]

\* the crawls in flight: the tasks suspended in `await scraper.run()`
InFlight == {t \in Triggers : tasks[t].state = "crawling"}

\* what a step of this part leaves alone
ApiUnchanged ==
    UNCHANGED <<runVars, ucVars, itemVars, repoVars, entityVars, callVars,
                schedulerVars>>

\* run_scrapers: background_tasks.add_task(run_scrapers_background,
\* request.stores, ...); the task starts once the response is sent, on the
\* event loop that serves the other requests.
RunScrapers(t) ==
    /\ tasks[t].state = "none"
    /\ \A u \in 1..(t - 1) : tasks[u].state # "none"
    /\ \E stores \in StoreLists :
        tasks' = [tasks EXCEPT ![t] = [state |-> "loop", stores |-> stores,
                                       done |-> <<>>]]
    /\ ApiUnchanged

\* run_scrapers_background: `for store in stores:` builds the ScraperConfig
\* and the scraper (ScraperFactory.create raises for an unregistered store)
\* and calls scraper.run(); after the last store the task ends.
FactoryOutcomes == {"ok", "raises"}
NextStore(t) ==
    /\ tasks[t].state = "loop"
    /\ IF Len(tasks[t].done) < Len(tasks[t].stores)
       THEN \E o \in FactoryOutcomes :
              IF o = "ok"
              THEN tasks' = [tasks EXCEPT ![t].state = "crawling"]
              ELSE tasks' = [tasks EXCEPT ![t].done = Append(@, "failed")]
       ELSE tasks' = [tasks EXCEPT ![t].state = "finished"]
    /\ ApiUnchanged

\* `metrics = await scraper.run()` comes back: the metrics are stored
\* through a session and appended to results; an Exception of run() or of
\* the session is logged and the loop goes on; a CancelledError leaves the
\* function.
CrawlOutcomes == {"returns", "raises", "save_raises", "cancelled"}
CrawlEnds(t) ==
    /\ tasks[t].state = "crawling"
    /\ \E o \in CrawlOutcomes :
        tasks' = [tasks EXCEPT
                    ![t].state = IF o = "cancelled" THEN "cancelled" ELSE "loop",
                    ![t].done = IF o = "cancelled" THEN @
                                ELSE IF o = "returns" THEN Append(@, "crawled")
                                ELSE Append(@, "failed")]
    /\ ApiUnchanged

ApiIdle == tasks = [t \in Triggers |-> NoTask]

ApiNext ==
    \E t \in Triggers :
        \/ RunScrapers(t)
        \/ NextStore(t)
        \/ CrawlEnds(t)

\* ====================================================================
\* ScraperScheduler._run_scraper and its concurrency counter
\*   (src/src/scrapers/scheduler.py)
\* ====================================================================

\* the calls of _run_scraper (through run_now), coroutines of one event loop
Jobs == 1..MaxJobs

\* A call: where it is, whether it passed the limit check, whether a scraper
\* was created for it, how often it added to and took from running_jobs,
\* and what it returned.
NoJob == [state |-> "none", admitted |-> FALSE, created |-> FALSE,
          incremented |-> 0, decremented |-> 0, returned |-> "nothing"]

\* the scraper runs in flight: the calls suspended in `await scraper.run()`
RunningScrapers == {j \in Jobs : jobs[j].state = "running"}

\* what a step of this part leaves alone
SchedulerUnchanged ==
    UNCHANGED <<runVars, ucVars, itemVars, repoVars, entityVars, callVars,
                apiVars, max_concurrent>>

\* faulty variant of exit_path: running_jobs is given back only after a run that
\* returned
exit_path_without_finally(o) ==
    [returned |-> CASE o = "returns" -> "metrics"
                    [] o = "raises" -> "empty metrics"
                    [] OTHER -> "CancelledError",
     decrement |-> IF o = "returns" THEN 1 ELSE 0]

\* How `metrics = await scraper.run()` and the rest of the try statement
\* end: run() returns (metrics saved, callbacks called, each with its own
\* exception handler; `return metrics`), run() raises an Exception
\* (`return ScraperMetrics(store=store)`), or the task is cancelled.  The
\* finally block `self.running_jobs -= 1` runs in each case.
exit_path(o) ==
    [returned |-> CASE o = "returns" -> "metrics"
                    [] o = "raises" -> "empty metrics"
                    [] OTHER -> "CancelledError",
     decrement |-> 1]

\* _run_scraper up to its first await.  At the limit: `return
\* ScraperMetrics(store=store)`.  Otherwise running_jobs += 1 and, in the
\* try block, ScraperFactory.create; when that raises, the except block
\* returns empty metrics and the finally block takes the count back.
RunScraper(j) ==
    /\ jobs[j].state = "none"
    /\ \A i \in 1..(j - 1) : jobs[i].state # "none"
    /\ IF running_jobs >= max_concurrent
       THEN /\ jobs' = [jobs EXCEPT ![j].state = "returned",
                                    ![j].returned = "empty metrics"]
            /\ UNCHANGED running_jobs
       ELSE \E o \in FactoryOutcomes :
              IF o = "ok"
              THEN /\ running_jobs' = running_jobs + 1
                   /\ jobs' = [jobs EXCEPT ![j].state = "running",
                                           ![j].admitted = TRUE,
                                           ![j].created = TRUE,
                                           ![j].incremented = @ + 1]
              ELSE /\ running_jobs' = (running_jobs + 1) - 1
                   /\ jobs' = [jobs EXCEPT ![j].state = "returned",
                                           ![j].admitted = TRUE,
                                           ![j].incremented = @ + 1,
                                           ![j].decremented = @ + 1,
                                           ![j].returned = "empty metrics"]
    /\ SchedulerUnchanged

\* `await scraper.run()` comes back and _run_scraper runs to its end
RunOutcomes == {"returns", "raises", "cancelled"}
ScraperRunEnds(j) ==
    /\ jobs[j].state = "running"
    /\ \E o \in RunOutcomes :
        /\ running_jobs' = running_jobs - exit_path(o).decrement
        /\ jobs' = [jobs EXCEPT
                      ![j].state = IF o = "cancelled" THEN "raised"
                                   ELSE "returned",
                      ![j].decremented = @ + exit_path(o).decrement,
                      ![j].returned = exit_path(o).returned]
    /\ SchedulerUnchanged

\* ScraperScheduler(): max_concurrent defaults to 1, running_jobs = 0
SchedulerIdle ==
    /\ running_jobs = 0
    /\ max_concurrent = 1
    /\ jobs = [j \in Jobs |-> NoJob]

SchedulerNext ==
    \E j \in Jobs :
        \/ RunScraper(j)
        \/ ScraperRunEnds(j)

\* every other component at rest
MoreIdle == EntityIdle /\ CallIdle /\ ApiIdle /\ SchedulerIdle

\* ====================================================================
\* Specifications
\* ====================================================================

\* one crawl: BaseScraper.run or ScrapeStoreUseCase.execute
Init == RunInit /\ UcInit /\ ItemIdle /\ RepoIdle /\ MoreIdle

Next == RunNext \/ UcNext

Spec == Init /\ [][Next]_vars

\* one extraction result, any of Items, taken through either path
ItemInit ==
    /\ RunInit
    /\ UcInit
    /\ RepoIdle
    /\ MoreIdle
    /\ item \in Items
    /\ handled = NotHandled

ItemSpec == ItemInit /\ [][ItemNext]_vars

\* the repository used through one session
SequentialSpec == Init /\ [][SequentialNext]_vars

\* the repository used through concurrent sessions
ConcurrentSpec == Init /\ [][ConcurrentNext]_vars

\* a ScraperRun entity, constructed with any counters its validation
\* accepts, under any sequence of up to MaxOps of its public operations
EntityInit ==
    /\ RunInit
    /\ ItemIdle
    /\ RepoIdle
    /\ EntityIdle
    /\ CallIdle
    /\ ApiIdle
    /\ SchedulerIdle
    /\ run \in Constructed
    /\ uc_pc = "idle"
    /\ config = NoConfig
    /\ uc_page_num = 0
    /\ results = <<>>
    /\ uc_exc = "none"
    /\ page_results = <<>>
    /\ page_base = Counters(NoRun)
    /\ uc_requested = <<>>
    /\ uc_calls = <<>>
    /\ uc_failed = "none"

EntitySpec == EntityInit /\ [][EntityNext]_vars

\* one function of the extraction layer applied to any argument of its
\* bounded domain
CallInit ==
    /\ RunInit
    /\ UcInit
    /\ ItemIdle
    /\ RepoIdle
    /\ EntityIdle
    /\ ApiIdle
    /\ SchedulerIdle
    /\ \/ fcall \in {Pending(fn, arg) :
                        fn \in {"_extract_text", "DataExtractor.extract_text"},
                        arg \in SelectorSets}
       \/ fcall \in {Pending("extract_price", arg) : arg \in CardPrices}
       \/ fcall \in {Pending("from_string", arg) :
                        arg \in ShortPrices \cup FormattedPrices}

CallSpec == CallInit /\ [][CallNext]_vars

\* up to MaxTriggers POST /run requests and their background tasks
ApiSpec == Init /\ [][ApiNext]_vars

\* a ScraperScheduler built with any limit up to MaxConcurrent and up to
\* MaxJobs calls of _run_scraper
SchedulerInit ==
    /\ RunInit
    /\ UcInit
    /\ ItemIdle
    /\ RepoIdle
    /\ EntityIdle
    /\ CallIdle
    /\ ApiIdle
    /\ running_jobs = 0
    /\ max_concurrent \in 0..MaxConcurrent
    /\ jobs = [j \in Jobs |-> NoJob]

SchedulerSpec == SchedulerInit /\ [][SchedulerNext]_vars

\* ====================================================================
\* Properties
\* ====================================================================

Count(s, x) == Cardinality({i \in DOMAIN s : s[i] = x})
Terminal == {"returned", "raised"}
\* no call "b" is logged after a call "a"
NoneAfter(s, a, b) == \A i, j \in DOMAIN s : (s[i] = a /\ s[j] = b) => j < i
\* the last n entries of s all equal x
LastAre(s, n, x) ==
    /\ Len(s) >= n
    /\ \A i \in (Len(s) - n + 1)..Len(s) : s[i] = x

\* C1 (original claim): execute never raises, whatever the configuration and
\* whatever a collaborator does; the only exception that may leave it is the
\* cancellation of its own task, and a run that hit a failure is returned
\* with success = false.
C1_ExecuteNeverRaises ==
    /\ uc_pc = "raised" => uc_exc = "CancelledError"
    /\ (uc_pc = "returned" /\ uc_failed # "none") =>
            (~run.success /\ run.error_message # "None")

\* C2: on every exit path of a crawl that reached initialization the release
\* step is invoked exactly once, it is never invoked twice, and no page is
\* navigated to after it (run: _cleanup_browser / page.goto; execute:
\* browser.close / browser.navigate).
C2_ReleaseExactlyOnce ==
    /\ Count(calls, "cleanup") <= 1
    /\ (pc \in Terminal /\ Count(calls, "setup") > 0)
            => Count(calls, "cleanup") = 1
    /\ NoneAfter(calls, "cleanup", "goto")
    /\ Count(calls, "cleanup") = 1 => pc \in Terminal
    /\ Count(uc_calls, "close") <= 1
    /\ (uc_pc \in Terminal /\ Count(uc_calls, "initialize") > 0)
            => Count(uc_calls, "close") = 1
    /\ NoneAfter(uc_calls, "close", "navigate")

\* C2 witness: the task is cancelled in the middle of the third page of a
\* crawl; run() has ended and the release step was invoked once.
C2_Witness ==
    /\ pc = "raised"
    /\ exc = "CancelledError"
    /\ requested = <<1, 2, 3>>
    /\ attempts = <<"scraped", "scraped">>
    /\ products > 0
    /\ Count(calls, "cleanup") = 1

\* C3: a CAPTCHA on page n adds exactly one to captchas_detected, ends the
\* loop at once (page n is the last page requested and the last attempt),
\* and page n is not counted in pages_scraped.
C3_CaptchaStopsCrawl ==
    /\ metrics.captchas_detected = Count(attempts, "captcha")
    /\ \A n \in DOMAIN attempts :
        attempts[n] = "captcha" =>
            /\ n = Len(attempts)
            /\ requested = [i \in 1..n |-> i]
            /\ pc \in {"cleanup"} \cup Terminal
            /\ metrics.captchas_detected = 1
            /\ metrics.pages_scraped = Count(attempts, "scraped")
            /\ metrics.pages_scraped < n

\* C3 witness: CAPTCHA on page 2 of a crawl configured for MaxPages pages
\* whose page 1 was scraped; the run has returned.
C3_Witness ==
    /\ pc = "returned"
    /\ max_pages = MaxPages
    /\ attempts = <<"scraped", "captcha">>
    /\ requested = <<1, 2>>
    /\ metrics.pages_scraped = 1
    /\ metrics.captchas_detected = 1

\* the page loop was left by its condition after a page-load error, with
\* pages still to visit
StoppedAfterLoadError ==
    /\ pc = "cleanup"
    /\ exc = "none"
    /\ attempts # <<>>
    /\ Last(attempts) = "page_load_error"
    /\ page_num <= max_pages

C6_NavigateFailureRecoverable ==
    (uc_failed = "navigate" /\ uc_page_num < config.max_pages) =>
        /\ run.errors >= 1
        /\ ~(run.finished_at /\ ~run.success)

\* C7 (original claim): when building the product or product_repo.save
\* raises for a result, the result is counted as skipped and the run is
\* neither ended nor marked failed.
C7_ResultFailureSkipped ==
    uc_failed \in {"_create_product_from_dto", "product_repo.save"} =>
        /\ run.products_skipped >= 1
        /\ run.errors = 0
        /\ ~(run.finished_at /\ ~run.success)

\* C8: every element adds one to exactly one of products_saved and
\* products_skipped, also when processing it raises; between pages
\* products_found = products_saved + products_skipped; an element that
\* raises never ends the page or the loop.
C8_EveryElementCounted ==
    /\ metrics.products_found =
            metrics.products_saved + metrics.products_skipped + products
    /\ pc \in {"should_continue", "load", "captcha", "extract"} => products = 0
    /\ (pc = "cleanup" /\ products > 0) => exc = "CancelledError"
    /\ Count(attempts, "error") > 0 => products = 0

\* C8 witness: an element raised, and a later page was scraped after it.
C8_Witness ==
    /\ caught
    /\ pc = "should_continue"
    /\ attempts = <<"scraped", "scraped">>
    /\ metrics.products_skipped >= 1
    /\ metrics.products_saved >= 1
    /\ metrics.products_found = metrics.products_saved + metrics.products_skipped

\* number of valid results in a list
NumValid(rs) == Cardinality({i \in DOMAIN rs : rs[i]})

\* C9 (original claim): a page with k results of which v are valid adds k to
\* products_found, v to products_saved and k - v to products_skipped.
C9_PageCounts ==
    uc_pc = "page_done" =>
        /\ run.products_found = page_base.found + Len(page_results)
        /\ run.products_saved = page_base.saved + NumValid(page_results)
        /\ run.products_skipped =
                page_base.skipped + Len(page_results) - NumValid(page_results)

\* C10: products_saved <= products_found in every state of run() and of
\* execute(), between the elements of a page included.
C10_SavedAtMostFound ==
    /\ metrics.products_saved <= metrics.products_found
    /\ run.products_saved <= run.products_found

\* C10 witness: in the middle of a page of run(), some elements saved and
\* some still to process.
C10_Witness ==
    /\ pc = "process"
    /\ products > 0
    /\ metrics.products_saved >= 2
    /\ metrics.products_saved < metrics.products_found

C12_FinalizedBeforeHandOff ==
    (uc_pc = "save_run" \/ Count(uc_calls, "run_repo.save") > 0) =>
        /\ run.finished_at
        /\ \/ run.success /\ run.error_message = "None"
           \/ ~run.success /\ run.error_message # "None"

C15_MaintenanceIsLoadError ==
    maintenance =>
        /\ attempts # <<>>
        /\ Last(attempts) = "page_load_error"
        /\ Len(requested) = Len(attempts)
        /\ Last(requested) = Len(attempts)
        /\ page_num = Len(attempts) + 1
        /\ metrics.errors =
                Count(attempts, "page_load_error") + Count(attempts, "error")
        /\ metrics.pages_scraped = Count(attempts, "scraped")
        /\ products = 0
        /\ metrics.products_found =
                metrics.products_saved + metrics.products_skipped
        /\ pc \in {"should_continue", "load", "cleanup"} \cup Terminal
        /\ (pc = "cleanup" /\ exc = "none") =>
                (page_num > max_pages \/ metrics.errors = TooManyErrors)
        /\ (pc = "load") =>
                (page_num <= max_pages /\ metrics.errors < TooManyErrors)

\* C15 witness: page 1 scraped, page 2 is a maintenance page, and the loop
\* is about to load page 3.
C15_Witness ==
    /\ maintenance
    /\ pc = "load"
    /\ page_num = 3
    /\ attempts = <<"scraped", "page_load_error">>
    /\ metrics.errors = 1
    /\ metrics.pages_scraped = 1

\* a fatal exception: one caught by the outer handler of run() or by the
\* `except Exception` of the page loop
FatalException ==
    Count(calls, "setup_raised") > 0 \/ Count(attempts, "error") > 0

\* C16 (original claim): the row stored for a run has success = true
\* unless a fatal exception occurred; page-load errors and maintenance
\* pages alone leave success = true.
C16_SuccessUnlessFatal ==
    recorded.state = "stored" => (recorded.success <=> ~FatalException)

\* the conditions C17 names for an extraction result
MeetsMinimum(r) ==
    /\ r.title # ""
    /\ r.price_raw # <<>>
    /\ r.url # ""
    /\ MinPrice * Cents <= r.price_value
    /\ r.price_value <= MaxPrice * Cents

\* C17: _process_product hands a product to ProductRepository.create only
\* if the extraction result has a non-empty title, raw price and URL and a
\* price p with 100 <= p <= 50000; a result failing any of these is counted
\* as skipped and is never handed over; a result counted as saved was
\* handed over.
C17_OnlyValidPersisted ==
    handled.by = "_process_product" =>
        /\ handled.persisted => MeetsMinimum(item)
        /\ ~MeetsMinimum(item) =>
                (handled.counted = "skipped" /\ ~handled.persisted)
        /\ handled.counted = "saved" => handled.persisted
        /\ handled.counted \in {"saved", "skipped"}
        /\ ~handled.raised

\* C17 witness: a result complete in every field whose price is one centavo
\* above 50000 was processed and counted as skipped.
C17_Witness ==
    /\ handled.by = "_process_product"
    /\ item.title = "RTX 4070 Ti"
    /\ item.price_raw # <<>>
    /\ item.url = "https://www.pichau.com.br/rtx-4070"
    /\ item.price_value = MaxPrice * Cents + 1
    /\ handled.counted = "skipped"
    /\ ~handled.persisted

RECURSIVE Pow10(_)
Pow10(n) == IF n = 0 THEN 1 ELSE 10 * Pow10(n - 1)

\* the price parsed from price_raw lies outside [100, 50000]
ParsedOutOfRange(r) ==
    LET a == from_string(r.price_raw) IN
    /\ a.ok
    /\ \/ a.num < MinPrice * Pow10(a.scale)
       \/ a.num > MaxPrice * Pow10(a.scale)

\* C18 (original claim): in execute an extraction result whose parsed price
\* lies outside [100, 50000] is rejected: it is counted as skipped and
\* product_repo.save is not called for it.
C18_OutOfRangeRejected ==
    (handled.by = "execute" /\ ParsedOutOfRange(item)) =>
        (handled.counted = "skipped" /\ ~handled.persisted)

\* the rows the session saw before and after the i-th completed create()
RowsAfter(i) == created[i].rows
RowsBefore(i) == IF i = 1 THEN {} ELSE created[i - 1].rows
\* a row without its updated_at column
WithoutUpdatedAt(r) == [c \in DOMAIN r \ {"updated_at"} |-> r[c]]

\* after every create() there is exactly one row per URL created so far
OneRowPerUrl ==
    \A i \in DOMAIN created :
        /\ \A r1, r2 \in RowsAfter(i) : r1.url = r2.url => r1 = r2
        /\ {r.url : r \in RowsAfter(i)} =
                {created[j].product.url : j \in 1..i}

\* a create() for a stored URL keeps the row's id and stores the latest
\* title, price and enrichment; a create() for a new URL adds one row with
\* a fresh id; no other row is touched
UpsertByUrl ==
    \A i \in DOMAIN created :
        LET product == created[i].product
            after == CHOOSE r \in RowsAfter(i) : r.id = created[i].id
        IN
        /\ \E r \in RowsAfter(i) : r.id = created[i].id
        /\ after.url = product.url
        /\ after.title = product.title
        /\ after.price = product.price
        /\ after.model = product.model
        /\ \A r \in RowsBefore(i) :
                IF r.url = product.url
                THEN r.id = after.id /\ r.created_at = after.created_at
                ELSE r \in RowsAfter(i)
        /\ (\A r \in RowsBefore(i) : r.url # product.url) =>
                \A r \in RowsBefore(i) : r.id # after.id
        /\ Cardinality(RowsAfter(i)) <= Cardinality(RowsBefore(i)) + 1

\* C19 (original claim): create is an upsert keyed on URL: one row per
\* distinct URL, a create for a stored URL keeps the id and stores the
\* latest values, and creating the same product twice in a row leaves the
\* table exactly as after the first call.
C19_UpsertIdempotent ==
    /\ OneRowPerUrl
    /\ UpsertByUrl
    /\ \A i \in DOMAIN created :
            (i > 1 /\ created[i].product = created[i - 1].product) =>
                RowsAfter(i) = RowsAfter(i - 1)

\* C19 (amended): as above, but creating the same product twice in a row
\* leaves the table as after the first call except for the row's
\* updated_at, which the second call sets to its own time.
C19_UpsertIdempotentButUpdatedAt ==
    /\ OneRowPerUrl
    /\ UpsertByUrl
    /\ \A i \in DOMAIN created :
            (i > 1 /\ created[i].product = created[i - 1].product) =>
                /\ {WithoutUpdatedAt(r) : r \in RowsAfter(i)} =
                        {WithoutUpdatedAt(r) : r \in RowsAfter(i - 1)}
                /\ \A r \in RowsAfter(i) : \A q \in RowsAfter(i - 1) :
                        r.id = q.id =>
                            IF r.id = created[i].id
                            THEN r.updated_at >= q.updated_at
                            ELSE r.updated_at = q.updated_at

\* C19 witness: Product V1 was created, then Product V2 with the same URL
\* twice; there is one row, with the first id and V2's title, whose
\* updated_at moved at the third call.
C19_Witness ==
    /\ Len(created) = 3
    /\ created[1].product.title = "Product V1"
    /\ created[2].product.title = "Product V2"
    /\ created[2].product.url = created[1].product.url
    /\ created[3].product = created[2].product
    /\ created[3].id = created[1].id
    /\ Cardinality(RowsAfter(3)) = 1
    /\ \A r \in RowsAfter(3) : \A q \in RowsAfter(2) :
            r.title = "Product V2" /\ r.updated_at > q.updated_at

\* C20 (original claim): whatever the interleaving of the create() calls of
\* concurrent sessions, no call raises and the table holds one row per URL.
C20_ConcurrentCreatesSucceed ==
    /\ \A s \in Sessions : ~sessions[s].raised
    /\ \A r1, r2 \in table : r1.url = r2.url => r1 = r2

\* the page numbers of s start at 1, grow strictly and stay within limit
IncreasingFromOne(s, limit) ==
    /\ s # <<>> => s[1] = 1
    /\ \A i, j \in DOMAIN s : i < j => s[i] < s[j]
    /\ \A i \in DOMAIN s : s[i] <= limit
    /\ Len(s) <= limit

\* C21: within one run of BaseScraper.run or of ScrapeStoreUseCase.execute
\* the pages are requested in strictly increasing order starting at page 1,
\* no page number is requested twice, none is above max_pages, and the loop
\* makes at most max_pages page attempts.
C21_PagesInOrderWithinLimit ==
    /\ IncreasingFromOne(requested, max_pages)
    /\ Len(attempts) <= max_pages
    /\ Len(attempts) <= Len(requested)
    /\ IncreasingFromOne(uc_requested, config.max_pages)
    /\ run.pages_scraped <= config.max_pages

\* C21 witness: a crawl configured for MaxPages pages has requested every
\* one of them, two of which failed to load, and has returned.
C21_Witness ==
    /\ pc = "returned"
    /\ max_pages = MaxPages
    /\ requested = [i \in 1..MaxPages |-> i]
    /\ Count(attempts, "page_load_error") = 2
    /\ Len(attempts) = MaxPages

\* C22: when no product-card selector locates more than 5 elements on a
\* loaded page, BaseScraper takes the page as yielding zero products and not
\* as an error: products_found, errors and every other counter are
\* unchanged, pages_scraped grows by one, there is no element to process,
\* and the loop goes on with page n+1, which is requested next when it is
\* within max_pages.
C22_FewElementsYieldNothing ==
    [][(pc = "extract" /\ few_elements' /\ exc' = exc) =>
            /\ metrics' = [metrics EXCEPT !.pages_scraped = @ + 1]
            /\ products' = 0
            /\ attempts' = Append(attempts, "scraped")
            /\ page_num' = page_num + 1
            /\ pc' = "should_continue"
            /\ should_continue(page_num', metrics') = (page_num' <= max_pages)
      ]_vars

\* C22 witness: the selectors located 5 and 0 elements on page 1 (one of
\* them exactly the minimum); page 1 counts as scraped with no product and
\* no error, and page 2 has been requested.
C22_Witness ==
    /\ pc = "captcha"
    /\ few_elements
    /\ requested = <<1, 2>>
    /\ attempts = <<"scraped">>
    /\ metrics.pages_scraped = 1
    /\ metrics.products_found = 0
    /\ metrics.errors = 0

\* C23 (original claim): a ScraperRun keeps products_saved <= products_found
\* after any sequence of its public operations, not only at construction.
C23_EntityKeepsSavedAtMostFound ==
    run.products_saved <= run.products_found

\* the step is the call add_product(p) on the entity
IsAddProduct(p) == ops' = Append(ops, [op |-> "add_product", arg |-> p])

\* C28: add_product is idempotent per product: a product not yet in the run
\* is added to products and products_found grows by exactly 1, nothing else
\* changes; the same product again leaves the entity as it is.
C28_AddProductIdempotent ==
    [][\A p \in ProductIds : IsAddProduct(p) =>
            IF p \in run.products
            THEN run' = run
            ELSE run' = [run EXCEPT !.products = @ \cup {p},
                                    !.products_found = @ + 1]
      ]_vars

\* C28 witness: product 1 was added, then product 2, then product 1 again;
\* the run holds both and counted two.
C28_Witness ==
    /\ Len(ops) = 3
    /\ ops[1] = [op |-> "add_product", arg |-> 1]
    /\ ops[2] = [op |-> "add_product", arg |-> 2]
    /\ ops[3] = [op |-> "add_product", arg |-> 1]
    /\ run.products = {1, 2}
    /\ run.products_found = 2

\* selector i of the set yields text: it does not raise, it matches, and the
\* text of its first match is not empty once stripped
Yields(selector_set, i) ==
    /\ ~selector_set[i].raises
    /\ selector_set[i].texts # <<>>
    /\ Strip(selector_set[i].texts[1]) # <<>>

OverSaneMinimum(card) ==
    {card.amounts[i] : i \in DOMAIN card.amounts} \ (0..(SaneMinimum * Cents))

\* C25 (original claim): with V the detected currency values that exceed
\* 100, the price returned by PichauScraper.extract_price is the minimum of
\* the values of V that exceed 20% of max(V), and it is a member of V; for
\* V = {529.41, 5399.99, 26999.00} it is 5399.99; None is returned when V is
\* empty.
C25_MinimumAboveFifthOfMax ==
    (fcall.fn = "extract_price" /\ fcall.done) =>
        LET V == OverSaneMinimum(fcall.arg) IN
        /\ V = {} => ~fcall.result.some
        /\ (V # {} /\ fcall.arg.matched) => fcall.result.some
        /\ fcall.result.some =>
              /\ fcall.result.value \in V
              /\ 5 * fcall.result.value > MaxOf(fcall.arg.amounts)
              /\ \A v \in V : 5 * v > MaxOf(fcall.arg.amounts)
                                  => fcall.result.value <= v
        /\ (V = {52941, 539999, 2699900} /\ fcall.arg.matched)
              => fcall.result.value = 539999

\* The decimal a string of digits and separators denotes under the
\* separator rule: drop the prefix and whitespace; the kind of separator
\* that occurs rightmost is the decimal separator and every separator of the
\* other kind is dropped; what remains must be digits around at most one
\* decimal separator, with at least one digit.
Separators == {".", ","}
RightmostSeparator(b) ==
    b[CHOOSE i \in DOMAIN b :
        /\ b[i] \in Separators
        /\ \A j \in DOMAIN b : b[j] \in Separators => j <= i]
ExpectedDecimal(price_str) ==
    LET b == Remove(price_str, {"R", "$", " "})
        w == IF \E i \in DOMAIN b : b[i] \in Separators
             THEN Remove(b, Separators \ {RightmostSeparator(b)})
             ELSE b
        seps == {i \in DOMAIN w : w[i] \in Separators}
        digits == Remove(w, Separators)
    IN  IF digits = <<>> \/ Cardinality(seps) > 1 THEN NoDecimal
        ELSE [ok |-> TRUE, negative |-> FALSE, num |-> DigitsToNat(digits),
              scale |-> IF seps = {} THEN 0
                        ELSE Len(w) - (CHOOSE i \in seps : TRUE)]

\* C26 (original claim): from_string follows the separator rule: a string
\* that parses gives the decimal the rule denotes, a cleaned string that is
\* not a valid decimal gives ValueError, and every string of the form
\* "R$ D.DDD,DD" parses to the decimal it denotes.
C26_SeparatorRule ==
    (fcall.fn = "from_string" /\ fcall.done) =>
        LET expected == ExpectedDecimal(fcall.arg) IN
        /\ fcall.result.ok => fcall.result = expected
        /\ ~expected.ok => ~fcall.result.ok
        /\ fcall.arg \in FormattedPrices => fcall.result = expected

\* C26 (amended): from_string follows the separator rule and parses exactly
\* the strings whose denoted decimal is valid and not zero; a string that
\* denotes zero, "R$ 0.000,00" included, gives ValueError like a string that
\* denotes no decimal.  Every string of the form "R$ D.DDD,DD" with a
\* non-zero digit parses to the decimal it denotes.
C26_SeparatorRuleForPositive ==
    (fcall.fn = "from_string" /\ fcall.done) =>
        LET expected == ExpectedDecimal(fcall.arg) IN
        /\ IF expected.ok /\ expected.num # 0
           THEN fcall.result = expected
           ELSE ~fcall.result.ok
        /\ fcall.arg \in FormattedPrices => expected.ok /\ expected.scale = 2

\* C26 witness: "R$ 2.500,99" was parsed to 2500.99.
C26_Witness ==
    /\ fcall.fn = "from_string"
    /\ fcall.done
    /\ fcall.arg = <<"R", "$", " ", "2", ".", "5", "0", "0", ",", "9", "9">>
    /\ fcall.result = [ok |-> TRUE, negative |-> FALSE, num |-> 250099,
                       scale |-> 2]

\* C27 (original claim): store crawls are serialized: whatever the scrape
\* triggers, at most one store crawl is in flight at any time; within one
\* background task the stores are taken in the requested order, one after
\* the other has ended, and a store that failed does not keep the task from
\* going through the remaining stores.
C27_CrawlsSerialized ==
    /\ Cardinality(InFlight) <= 1
    /\ \A t \in Triggers :
        /\ Len(tasks[t].done) <= Len(tasks[t].stores)
        /\ tasks[t].state = "crawling"
                => Len(tasks[t].done) < Len(tasks[t].stores)
        /\ tasks[t].state = "finished"
                => Len(tasks[t].done) = Len(tasks[t].stores)

\* the counter and the histories of the calls agree
RunningJobsCounted ==
    /\ 0 <= running_jobs
    /\ running_jobs <= max_concurrent
    /\ running_jobs = Cardinality(RunningScrapers)
    /\ \A j \in Jobs :
        /\ (jobs[j].state # "none" /\ ~jobs[j].admitted) =>
                /\ jobs[j].state = "returned"
                /\ jobs[j].returned = "empty metrics"
                /\ ~jobs[j].created
                /\ jobs[j].incremented = 0
                /\ jobs[j].decremented = 0
        /\ jobs[j].state = "running" =>
                /\ jobs[j].incremented = 1
                /\ jobs[j].decremented = 0
        /\ (jobs[j].state \in Terminal /\ jobs[j].admitted) =>
                /\ jobs[j].incremented = 1
                /\ jobs[j].decremented = 1

\* a call is turned away exactly when it finds the counter at the limit,
\* and then the counter is left as it is
TurnedAwayAtLimit ==
    \A j \in Jobs :
        (jobs[j].state = "none" /\ jobs'[j].state # "none") =>
            /\ jobs'[j].admitted <=> running_jobs < max_concurrent
            /\ ~jobs'[j].admitted => running_jobs' = running_jobs

\* C29: _run_scraper keeps 0 <= running_jobs <= max_concurrent, with
\* running_jobs the number of scraper runs in flight, under any interleaving
\* of the calls; a call that finds running_jobs at the limit returns empty
\* metrics without creating or running a scraper and without touching the
\* counter; an admitted call adds one and takes one back exactly once on
\* every exit (return, scraper exception, cancellation), so the counter is
\* 0 when no run is in flight.
C29_RunningJobsWithinLimit ==
    []RunningJobsCounted /\ [][TurnedAwayAtLimit]_vars

\* C29 witness: with a limit of 2, two runs were admitted and the third
\* call was turned away while both were in flight; then one run raised and
\* gave its slot back.
C29_Witness ==
    /\ max_concurrent = 2
    /\ running_jobs = 1
    /\ jobs[1].state = "returned"
    /\ jobs[1].returned = "empty metrics"
    /\ jobs[1].admitted
    /\ jobs[1].created
    /\ jobs[2].state = "running"
    /\ jobs[3].state = "returned"
    /\ ~jobs[3].admitted

\* C30: in run(), after a successful browser setup, every page attempt
\* changes exactly one of pages_scraped, errors and captchas_detected, by
\* exactly 1 (a scraped page pages_scraped, a page that failed to load or
\* raised errors, a CAPTCHA page captchas_detected); between page attempts
\* the three add up to the number of pages attempted, and
\* captchas_detected is never greater than 1.  Inside a page whose elements
\* are being processed the page is already counted.
C30_OneCounterPerAttempt ==
    /\ metrics.captchas_detected <= 1
    /\ Count(calls, "setup_raised") = 0 =>
        /\ metrics.pages_scraped =
                Count(attempts, "scraped") + (IF products > 0 THEN 1 ELSE 0)
        /\ metrics.errors =
                Count(attempts, "page_load_error") + Count(attempts, "error")
        /\ metrics.captchas_detected = Count(attempts, "captcha")
        /\ pc = "should_continue" =>
                /\ products = 0
                /\ Len(requested) = Len(attempts)
                /\ metrics.pages_scraped + metrics.errors
                        + metrics.captchas_detected = Len(requested)

\* C30 witness: between the third and the fourth page attempt, after a
\* scraped page, a page that failed to load and another scraped page.
C30_Witness ==
    /\ pc = "should_continue"
    /\ attempts = <<"scraped", "page_load_error", "scraped">>
    /\ requested = <<1, 2, 3>>
    /\ metrics.pages_scraped = 2
    /\ metrics.errors = 1
    /\ metrics.captchas_detected = 0

====
